---- MODULE Spec2Model ----
(***************************************************************************)
(* State-to-view synchronisation of the to-do list in src/script.js.       *)
(*                                                                         *)
(* The JavaScript `state` object and the parts of the document the script  *)
(* reads and writes are the variables.  Every event handler runs to        *)
(* completion (single-threaded event loop), so each handler is one action  *)
(* of Spec.  SpecSteps runs handleSubmit one statement at a time, to       *)
(* observe the order of its side effects.                                  *)
(***************************************************************************)
EXTENDS Integers, Sequences, FiniteSets, TLC

VARIABLES
  state,          \* the `state` object: hideCompleted, formIsValid, todos
  ul,             \* children of '#todos ul': the rendered <li> rows
  formClassName,  \* className of '#todos form'
  preInnerHTML,   \* innerHTML of '#todos pre'
  inputValue,     \* value of the text input (e.target[0] of the form)
  focused,        \* TRUE iff the text input has the focus
  pc              \* position inside handleSubmit; "idle" between events

vars == <<state, ul, formClassName, preInnerHTML, inputValue, focused, pc>>

(***************************************************************************)
(* Bounds                                                                  *)
(***************************************************************************)
\* Longest list of todos explored (the three seed items plus appended ones).
MaxTodos == 5

\* Values the user can give to the text input: empty, a text equal to a
\* seed item's, a fresh text, and a blank (whitespace is not trimmed).
Values == {"", "learn js", "buy eggs", " "}

(***************************************************************************)
(* Initial value of `state`                                                *)
(***************************************************************************)
SeedTodos ==
  << [text |-> "buy milk", completed |-> TRUE],
     [text |-> "clean kitchen", completed |-> FALSE],
     [text |-> "learn js", completed |-> FALSE] >>

InitialState ==
  [hideCompleted |-> FALSE, formIsValid |-> FALSE, todos |-> SeedTodos]

(***************************************************************************)
(* JavaScript values and coercions used by the script                      *)
(***************************************************************************)
\* null, as returned by getHelperMessage
JSNull == [isNull |-> TRUE, str |-> ""]

JSString(s) == [isNull |-> FALSE, str |-> s]

\* Faulty variant: the test is made on the element, which is always truthy.
ToBooleanOfElement(s) == TRUE

\* ToBoolean of a string: only the empty string is falsy.
ToBoolean(s) == Len(s) > 0

\* Assigning v to innerHTML: null becomes the empty string, plain text
\* (no markup) is kept as is.
SetInnerHTML(v) == IF v.isNull THEN "" ELSE v.str

(***************************************************************************)
(* Rendering                                                               *)
(*                                                                         *)
(* An item object is referred to by its position in state.todos: the code  *)
(* only ever pushes onto that array, so the position of an object never    *)
(* changes and identifies it.  getVisibleTodos yields references, and the  *)
(* click listener of a row keeps the reference it was created with.        *)
(***************************************************************************)
\* Faulty variant: the branches of the filter are swapped.
getVisibleTodosSwapped(s) ==
  LET refs == [i \in 1..Len(s.todos) |-> i]
      keep(i) == IF s.hideCompleted THEN TRUE ELSE ~s.todos[i].completed
  IN  SelectSeq(refs, keep)

getVisibleTodos(s) ==
  LET refs == [i \in 1..Len(s.todos) |-> i]
      keep(i) == IF s.hideCompleted THEN ~s.todos[i].completed ELSE TRUE
  IN  SelectSeq(refs, keep)

\* Faulty variant: the rows of the previous render are not removed.
resetDOMListKeep(rows) == rows

\* querySelectorAll('#todos ul *').forEach($ => $.remove())
resetDOMList(rows) == SelectSeq(rows, LAMBDA li : FALSE)

\* Faulty variant: the listener looks its item up by the row's position in
\* the <ul> instead of keeping the object it was created for.
renderDOMListItemByRow(rows, s, item) ==
  LET li == [text      |-> s.todos[item].text,
             className |-> IF s.todos[item].completed THEN "is-done" ELSE "",
             item      |-> Len(rows) + 1]
  IN  Append(rows, li)

\* One <li>: a text node with item.text, class 'is-done' when completed,
\* a click listener closed over `item`; appended to the <ul>.
renderDOMListItem(rows, s, item) ==
  LET li == [text      |-> s.todos[item].text,
             className |-> IF s.todos[item].completed THEN "is-done" ELSE "",
             item      |-> item]
  IN  Append(rows, li)

RECURSIVE forEachRender(_, _, _)
forEachRender(rows, s, items) ==
  IF items = <<>> THEN rows
  ELSE forEachRender(renderDOMListItem(rows, s, Head(items)), s, Tail(items))

renderDOMList(rows, s) == forEachRender(rows, s, getVisibleTodos(s))

\* Faulty variant: the helper looks at all todos, not at the visible ones.
getHelperMessageAllTodos(s) ==
  IF Len(s.todos) # 0 THEN JSNull
  ELSE JSString("Create your first task!")

getHelperMessage(s) ==
  IF Len(getVisibleTodos(s)) # 0 THEN JSNull
  ELSE JSString("Create your first task!")

renderDOMHelperMessage(s) == SetInnerHTML(getHelperMessage(s))

\* Faulty variant: the branches of the ternary are swapped.
getFormClassNameSwapped(s) == IF s.formIsValid THEN "" ELSE "is-valid"

getFormClassName(s) == IF s.formIsValid THEN "is-valid" ELSE ""

renderDOMFormStatus(s) == getFormClassName(s)

\* render(): the document after rendering state s over the rows `rows`.
render(s, rows) ==
  /\ ul' = renderDOMList(resetDOMList(rows), s)
  /\ formClassName' = renderDOMFormStatus(s)
  /\ preInnerHTML' = renderDOMHelperMessage(s)

(***************************************************************************)
(* Initial state: the script has run, i.e. render() at the end of the file *)
(* has rendered the seed state into the page.                              *)
(***************************************************************************)
Init ==
  /\ state = InitialState
  /\ ul = renderDOMList(resetDOMList(<<>>), InitialState)
  /\ formClassName = renderDOMFormStatus(InitialState)
  /\ preInnerHTML = renderDOMHelperMessage(InitialState)
  /\ inputValue = ""
  /\ focused = FALSE
  /\ pc = "idle"

(***************************************************************************)
(* The user                                                                *)
(***************************************************************************)
\* The user edits the text input (typing, pasting, deleting).
SetInput(v) ==
  /\ pc = "idle"
  /\ inputValue # v
  /\ inputValue' = v
  /\ UNCHANGED <<state, ul, formClassName, preInnerHTML, focused, pc>>

\* The focus leaves the text input.
Blur ==
  /\ pc = "idle"
  /\ focused
  /\ focused' = FALSE
  /\ UNCHANGED <<state, ul, formClassName, preInnerHTML, inputValue, pc>>

(***************************************************************************)
(* Event handlers                                                          *)
(***************************************************************************)
\* Faulty variant: the listener removes the item from the list (splice).
toggleCompletedRemoving(s, item) ==
  [s EXCEPT !.todos = SubSeq(s.todos, 1, item - 1)
                        \o SubSeq(s.todos, item + 1, Len(s.todos))]

\* Faulty variant: the listener marks the item completed instead of flipping.
toggleCompletedSetTrue(s, item) ==
  [s EXCEPT !.todos[item].completed = TRUE]

\* The click listener of row r: item.completed = !item.completed; render()
toggleCompleted(s, item) ==
  [s EXCEPT !.todos[item].completed = ~s.todos[item].completed]

\* Faulty variant: the listener flips the flag and does not re-render.
handleClickNoRender(r) ==
  /\ pc = "idle"
  /\ r \in DOMAIN ul
  /\ state' = toggleCompleted(state, ul[r].item)
  /\ UNCHANGED <<ul, formClassName, preInnerHTML, inputValue, focused, pc>>

handleClick(r) ==
  /\ pc = "idle"
  /\ r \in DOMAIN ul
  /\ LET s1 == toggleCompleted(state, ul[r].item)
     IN  /\ state' = s1
         /\ render(s1, ul)
  /\ UNCHANGED <<inputValue, focused, pc>>

\* Faulty variant: the new item is created completed.
pushTodoCompleted(s, v) ==
  [s EXCEPT !.todos = Append(s.todos, [text |-> v, completed |-> TRUE])]

\* Faulty variant: unshift instead of push.
pushTodoFront(s, v) ==
  [s EXCEPT !.todos = <<[text |-> v, completed |-> FALSE]>> \o s.todos]

\* state.todos.push({completed: false, text: textEl.value})
pushTodo(s, v) ==
  [s EXCEPT !.todos = Append(s.todos, [text |-> v, completed |-> FALSE])]

\* handleSubmit, run to completion.
handleSubmit ==
  /\ pc = "idle"
  /\ IF ~ToBoolean(inputValue)
       THEN UNCHANGED vars
       ELSE /\ Len(state.todos) < MaxTodos
            /\ LET s1 == pushTodo(state, inputValue)
               IN  /\ state' = s1
                   /\ render(s1, ul)
            /\ inputValue' = ""
            /\ focused' = TRUE
            /\ pc' = pc

\* Faulty variant: every keyup flips the flag instead of deriving it.
setFormIsValidFlip(s, v) == [s EXCEPT !.formIsValid = ~s.formIsValid]

\* handleForm: keyup on the text input.
setFormIsValid(s, v) == [s EXCEPT !.formIsValid = Len(v) > 0]

handleForm ==
  /\ pc = "idle"
  /\ LET s1 == setFormIsValid(state, inputValue)
     IN  /\ state' = s1
         /\ render(s1, ul)
  /\ UNCHANGED <<inputValue, focused, pc>>

\* Faulty variant: hiding drops the completed items from the list itself.
setHideCompletedDropping(s, checked) ==
  [s EXCEPT !.hideCompleted = checked,
            !.todos = SelectSeq(s.todos, LAMBDA it : ~(checked /\ it.completed))]

\* handleHide: click on the checkbox, whose checked value is `checked`.
setHideCompleted(s, checked) == [s EXCEPT !.hideCompleted = checked]

handleHide(checked) ==
  /\ pc = "idle"
  /\ LET s1 == setHideCompleted(state, checked)
     IN  /\ state' = s1
         /\ render(s1, ul)
  /\ UNCHANGED <<inputValue, focused, pc>>

Next ==
  \/ \E v \in Values : SetInput(v)
  \/ Blur
  \/ \E r \in 1..MaxTodos : handleClick(r)
  \/ handleSubmit
  \/ handleForm
  \/ \E checked \in BOOLEAN : handleHide(checked)

Spec == Init /\ [][Next]_vars

(***************************************************************************)
(* handleSubmit one statement at a time.  No other event is handled and    *)
(* the user cannot edit the input while pc # "idle": handlers run to       *)
(* completion.                                                             *)
(***************************************************************************)
\* if (!textEl.value) return
submitGuard ==
  /\ pc = "idle"
  /\ IF ~ToBoolean(inputValue)
       THEN UNCHANGED vars
       ELSE /\ Len(state.todos) < MaxTodos
            /\ pc' = "push"
            /\ UNCHANGED <<state, ul, formClassName, preInnerHTML, inputValue, focused>>

\* Faulty variant: the input is cleared before the push reads it.
submitPushAfterClear ==
  /\ pc = "push"
  /\ inputValue' = ""
  /\ state' = pushTodo(state, "")
  /\ pc' = "render"
  /\ UNCHANGED <<ul, formClassName, preInnerHTML, focused>>

\* state.todos.push({...})
submitPush ==
  /\ pc = "push"
  /\ state' = pushTodo(state, inputValue)
  /\ pc' = "render"
  /\ UNCHANGED <<ul, formClassName, preInnerHTML, inputValue, focused>>

\* render()
submitRender ==
  /\ pc = "render"
  /\ render(state, ul)
  /\ pc' = "clear"
  /\ UNCHANGED <<state, inputValue, focused>>

\* textEl.value = ''
submitClear ==
  /\ pc = "clear"
  /\ inputValue' = ""
  /\ pc' = "focus"
  /\ UNCHANGED <<state, ul, formClassName, preInnerHTML, focused>>

\* textEl.focus()
submitFocus ==
  /\ pc = "focus"
  /\ focused' = TRUE
  /\ pc' = "idle"
  /\ UNCHANGED <<state, ul, formClassName, preInnerHTML, inputValue>>

NextSteps ==
  \/ \E v \in Values : SetInput(v)
  \/ Blur
  \/ \E r \in 1..MaxTodos : handleClick(r)
  \/ submitGuard
  \/ submitPush
  \/ submitRender
  \/ submitClear
  \/ submitFocus
  \/ handleForm
  \/ \E checked \in BOOLEAN : handleHide(checked)

SpecSteps == Init /\ [][NextSteps]_vars

(***************************************************************************)
(* Vocabulary of the properties                                            *)
(***************************************************************************)
\* Positions of the items a view of state s must show.
ShownItems(s) ==
  {i \in DOMAIN s.todos : s.hideCompleted = FALSE \/ s.todos[i].completed = FALSE}

\* The r-th shown item of s, counting in list order.
NthShown(s, r) ==
  CHOOSE i \in ShownItems(s) : Cardinality({j \in ShownItems(s) : j <= i}) = r

HasDoneMarker(li) == li.className = "is-done"

HelperText == "Create your first task!"

\* C1: the rendered rows are exactly the items with hideCompleted = false or
\* completed = false, one row each, in list order, each with its item's text.
C1_ViewShowsFilteredItems ==
  /\ Len(ul) = Cardinality(ShownItems(state))
  /\ \A r \in DOMAIN ul :
       /\ ul[r].item \in ShownItems(state)
       /\ ul[r].text = state.todos[ul[r].item].text
  /\ \A r1, r2 \in DOMAIN ul : r1 < r2 => ul[r1].item < ul[r2].item

\* C1 witness: a filtered view after appends and clicks: some item is hidden,
\* some appended item is shown.
C1_Witness ==
  /\ state.hideCompleted
  /\ Len(state.todos) > 3
  /\ Len(ul) < Len(state.todos)
  /\ \E r \in DOMAIN ul : ul[r].item > 3
  /\ state.todos[2].completed

\* C2: a click on row r flips the completed flag of the r-th shown item, the
\* item the row displays, and changes nothing else of the state: every other
\* item, the order and length of the list, hideCompleted and formIsValid.
C2_ClickFlipsDisplayedItem ==
  [][\A r \in DOMAIN ul :
       handleClick(r) =>
         LET k == NthShown(state, r)
         IN  /\ ul[r].text = state.todos[k].text
             /\ Len(state'.todos) = Len(state.todos)
             /\ state'.todos[k].completed = ~state.todos[k].completed
             /\ state'.todos[k].text = state.todos[k].text
             /\ \A j \in DOMAIN state.todos :
                  j # k => state'.todos[j] = state.todos[j]
             /\ state'.hideCompleted = state.hideCompleted
             /\ state'.formIsValid = state.formIsValid]_vars

\* C2 witness: under the filter, after an append, one of two items with the
\* same text has been clicked and the other has not.
C2_Witness ==
  /\ state.hideCompleted
  /\ \E i, j \in DOMAIN state.todos :
       /\ i < j
       /\ state.todos[i].text = state.todos[j].text
       /\ ~state.todos[i].completed
       /\ state.todos[j].completed

\* C3 as stated: after a click on a row the clicked item has a row, with the
\* done marker iff its row lacked the marker before the click.
C3_ClickedRowShowsFlippedMarker ==
  [][\A r \in DOMAIN ul :
       handleClick(r) =>
         \E q \in DOMAIN ul' :
           /\ ul'[q].item = ul[r].item
           /\ HasDoneMarker(ul'[q]) = ~HasDoneMarker(ul[r])]_vars

\* C3 amended: with hideCompleted false the clicked item's row is shown with
\* the marker flipped; with hideCompleted true the clicked row (which lacked
\* the marker) is removed by the re-render.
C3_ClickedRowFlippedOrHidden ==
  [][\A r \in DOMAIN ul :
       handleClick(r) =>
         IF state.hideCompleted
           THEN /\ ~HasDoneMarker(ul[r])
                /\ \A q \in DOMAIN ul' : ul'[q].item # ul[r].item
           ELSE \E q \in DOMAIN ul' :
                  /\ ul'[q].item = ul[r].item
                  /\ HasDoneMarker(ul'[q]) = ~HasDoneMarker(ul[r])]_vars

\* C3 witness: an appended item was clicked without the filter and shows the
\* marker, and a seed item's marker was removed by a click.
C3_Witness ==
  /\ ~state.hideCompleted
  /\ \E r \in DOMAIN ul : ul[r].item > 3 /\ HasDoneMarker(ul[r])
  /\ ~HasDoneMarker(ul[1])

\* C4: a submit with an empty input value changes nothing (list, flags, view,
\* input value), and the handler can always run in that case.
C4_EmptySubmitChangesNothing ==
  /\ [](pc = "idle" /\ inputValue = "" => ENABLED handleSubmit)
  /\ [][(inputValue = "" /\ handleSubmit) =>
          /\ state' = state
          /\ ul' = ul
          /\ formClassName' = formClassName
          /\ preInnerHTML' = preInnerHTML
          /\ inputValue' = inputValue]_vars

\* C4 witness: the input is empty while the form is still marked valid and the
\* list has grown: an empty submit is possible there.
C4_Witness ==
  /\ pc = "idle"
  /\ inputValue = ""
  /\ state.formIsValid
  /\ Len(state.todos) = 4
  /\ ENABLED handleSubmit

\* C5: a submit with a non-empty value v appends [text v, completed false] as
\* the last item, keeps the earlier items and their order, and empties the
\* input.
C5_SubmitAppendsLast ==
  [][(inputValue # "" /\ handleSubmit) =>
       /\ Len(state'.todos) = Len(state.todos) + 1
       /\ SubSeq(state'.todos, 1, Len(state.todos)) = state.todos
       /\ state'.todos[Len(state'.todos)] =
            [text |-> inputValue, completed |-> FALSE]
       /\ inputValue' = ""]_vars

\* C5 witness: "buy eggs" has been submitted: it is the last item, not
\* completed, and the input is empty.
C5_Witness ==
  /\ Len(state.todos) > 3
  /\ state.todos[Len(state.todos)] = [text |-> "buy eggs", completed |-> FALSE]
  /\ SubSeq(state.todos, 1, 3) # SeedTodos
  /\ inputValue = ""
  /\ focused

\* C6: the filter handler sets hideCompleted to the checked value and leaves
\* the list (count, order, texts, flags), formIsValid, the form marker and the
\* input as they were.
C6_FilterKeepsItems ==
  [][\A checked \in BOOLEAN :
       handleHide(checked) =>
         /\ state'.hideCompleted = checked
         /\ state'.todos = state.todos
         /\ state'.formIsValid = state.formIsValid
         /\ formClassName' = formClassName
         /\ inputValue' = inputValue]_vars

\* C6 witness: the filter is on and hides completed items of a list that has
\* appended items, which are all still there.
C6_Witness ==
  /\ state.hideCompleted
  /\ Len(state.todos) = MaxTodos
  /\ Len(ul) = 1
  /\ \E i \in DOMAIN state.todos : i > 3 /\ state.todos[i].completed

\* C7: the helper message is 'Create your first task!' when no row is
\* rendered and is absent (empty) when there is at least one row.
C7_HelperIffNoRows ==
  /\ Len(ul) = 0 => preInnerHTML = HelperText
  /\ Len(ul) >= 1 => preInnerHTML = ""
  /\ HelperText # ""

\* C7 witness: every item is completed and hidden, the helper is shown.
C7_Witness ==
  /\ Len(ul) = 0
  /\ preInnerHTML = HelperText
  /\ Len(state.todos) > 3

\* C8: a row has the done marker iff its item is completed, and the form has
\* the status marker iff formIsValid.
C8_MarkersMatchState ==
  /\ \A r \in DOMAIN ul :
       HasDoneMarker(ul[r]) <=> state.todos[ul[r].item].completed = TRUE
  /\ formClassName = "is-valid" <=> state.formIsValid = TRUE

\* C8 witness: rows with and without the marker, form marked valid.
C8_Witness ==
  /\ formClassName = "is-valid"
  /\ \E r \in DOMAIN ul : HasDoneMarker(ul[r]) /\ ul[r].item > 3
  /\ \E r \in DOMAIN ul : ~HasDoneMarker(ul[r])

\* The item appended by the submit in progress.
LastTodo == state.todos[Len(state.todos)]

\* A row for the last item of the list is rendered.
LastTodoRendered ==
  \E r \in DOMAIN ul :
    ul[r].item = Len(state.todos) /\ ul[r].text = LastTodo.text

\* C9: within a successful submit the value is read, then the item is
\* appended, then the view is rendered, and only then the input is cleared:
\* the appended text is the non-empty value the input held at submission.
C9_SubmitStepOrder ==
  /\ pc = "push" =>
       /\ inputValue # ""
  /\ pc = "render" =>
       /\ inputValue # ""
       /\ LastTodo = [text |-> inputValue, completed |-> FALSE]
       /\ ~LastTodoRendered
  /\ pc = "clear" =>
       /\ inputValue # ""
       /\ LastTodo = [text |-> inputValue, completed |-> FALSE]
       /\ LastTodoRendered
       /\ C1_ViewShowsFilteredItems
  /\ pc = "focus" =>
       /\ inputValue = ""
       /\ LastTodo.text # ""
       /\ LastTodo.completed = FALSE
       /\ LastTodoRendered
       /\ C1_ViewShowsFilteredItems

\* C9 witness: the submit of "buy eggs" has appended and rendered the item
\* and is about to clear the input, which still holds the text.
C9_Witness ==
  /\ pc = "clear"
  /\ inputValue = "buy eggs"
  /\ LastTodo.text = "buy eggs"
  /\ LastTodoRendered
  /\ state.hideCompleted

RowTexts(rows) == [r \in DOMAIN rows |-> rows[r].text]

\* C10: from the seed state (hideCompleted false, formIsValid false) setting
\* hideCompleted to true shows exactly the rows 'clean kitchen', 'learn js',
\* in that order, and no helper message.
C10_SeedScenario ==
  [][(state = InitialState /\ handleHide(TRUE)) =>
       /\ RowTexts(ul') = <<"clean kitchen", "learn js">>
       /\ preInnerHTML' = ""]_vars

\* C10 witness: the seed list with the filter switched on.
C10_Witness ==
  /\ state = [InitialState EXCEPT !.hideCompleted = TRUE]
  /\ Len(ul) = 2
  /\ inputValue = ""
  /\ ~focused

\* C11: the validity handler sets formIsValid to (length of the input value
\* > 0) and changes nothing else; run again on the same input value it leaves
\* the state and the view as the first run left them.
C11_ValidityDerivedIdempotent ==
  [][handleForm =>
       /\ state'.formIsValid = (inputValue # "")
       /\ state'.todos = state.todos
       /\ state'.hideCompleted = state.hideCompleted
       /\ inputValue' = inputValue
       /\ LET again == setFormIsValid(state', inputValue')
          IN  /\ again = state'
              /\ renderDOMList(resetDOMList(ul'), again) = ul'
              /\ renderDOMFormStatus(again) = formClassName'
              /\ renderDOMHelperMessage(again) = preInnerHTML']_vars

\* C11 witness: the handler has run on a blank (length 1) value and on an
\* empty one at different times: here the form is valid for the blank.
C11_Witness ==
  /\ inputValue = " "
  /\ state.formIsValid
  /\ formClassName = "is-valid"
  /\ Len(state.todos) = 3

TodoTexts(s) == [i \in DOMAIN s.todos |-> s.todos[i].text]

\* C12: items are never deleted, reordered or re-texted: the texts before a
\* step are a prefix of the texts after it, the list grows by at most one item
\* per event and only by a submit of a non-empty value, and it never has fewer
\* than the three seed items.
C12_ListOnlyGrows ==
  /\ [](Len(state.todos) >= Len(SeedTodos) /\ Len(SeedTodos) = 3)
  /\ [][/\ Len(state'.todos) >= Len(state.todos)
        /\ Len(state'.todos) <= Len(state.todos) + 1
        /\ SubSeq(TodoTexts(state'), 1, Len(state.todos)) = TodoTexts(state)
        /\ Len(state'.todos) > Len(state.todos) =>
             inputValue # "" /\ handleSubmit]_vars

\* C12 witness: two items were appended and seed items clicked; the seed
\* texts are still the first three, in order.
C12_Witness ==
  /\ Len(state.todos) = 5
  /\ SubSeq(TodoTexts(state), 1, 3) = <<"buy milk", "clean kitchen", "learn js">>
  /\ ~state.todos[1].completed
  /\ state.todos[3].completed
  /\ state.todos[4].completed

\* C13: every item of the list has a non-empty text, whatever was submitted
\* (submits of an empty input included).
C13_TextsNonEmpty ==
  \A i \in DOMAIN state.todos : state.todos[i].text # "" /\ Len(state.todos[i].text) > 0

\* C13 witness: a blank was submitted and appended (a blank is not empty),
\* and the input is empty again, so that an empty submit can follow.
C13_Witness ==
  /\ Len(state.todos) = 4
  /\ state.todos[4].text = " "
  /\ inputValue = ""
  /\ ENABLED handleSubmit

\* C14: an item is created with completed = false, and the flag of an
\* existing item changes only by a click on the row of that item: the submit,
\* validity and filter handlers change no existing flag.
C14_CompletedOnlyByClick ==
  [][/\ \A i \in DOMAIN state'.todos \ DOMAIN state.todos :
          state'.todos[i].completed = FALSE
     /\ \A i \in DOMAIN state.todos :
          state'.todos[i].completed # state.todos[i].completed =>
            \E r \in DOMAIN ul :
              /\ handleClick(r)
              /\ NthShown(state, r) = i
              /\ ul[r].text = state.todos[i].text
     /\ (handleSubmit \/ handleForm \/ \E checked \in BOOLEAN : handleHide(checked)) =>
          \A i \in DOMAIN state.todos :
            state'.todos[i].completed = state.todos[i].completed]_vars

\* C14 witness: an appended item is completed (it was clicked) and a later
\* appended item is still not completed, after filter and validity events.
C14_Witness ==
  /\ Len(state.todos) = 5
  /\ state.todos[4].completed
  /\ ~state.todos[5].completed
  /\ state.hideCompleted
  /\ state.formIsValid

\* The view the specification prescribes for a state snapshot s.
ExpectedRows(s) ==
  [r \in 1..Cardinality(ShownItems(s)) |->
     LET k == NthShown(s, r)
     IN  [text      |-> s.todos[k].text,
          className |-> IF s.todos[k].completed THEN "is-done" ELSE "",
          item      |-> k]]

ExpectedFormMarker(s) == IF s.formIsValid THEN "is-valid" ELSE ""

ExpectedHelper(s) == IF ShownItems(s) = {} THEN HelperText ELSE ""

\* C15: rendering is a pure function of the state snapshot: whenever a render
\* has completed the view is the one determined by the current items,
\* hideCompleted and formIsValid alone (whatever events led there), the render
\* step changes none of them, and rendering again without a state change
\* gives the same view.
C15_RenderPureFunctionOfState ==
  /\ [](pc # "render" =>
          /\ ul = ExpectedRows(state)
          /\ formClassName = ExpectedFormMarker(state)
          /\ preInnerHTML = ExpectedHelper(state))
  /\ [][submitRender =>
          /\ state' = state
          /\ renderDOMList(resetDOMList(ul'), state') = ul'
          /\ renderDOMFormStatus(state') = formClassName'
          /\ renderDOMHelperMessage(state') = preInnerHTML']_vars

\* C15 witness: the render step of a submit has just run on a filtered list
\* with completed items and a valid form.
C15_Witness ==
  /\ pc = "clear"
  /\ state.hideCompleted
  /\ state.formIsValid
  /\ Len(ul) = 2
  /\ Len(state.todos) = 5
  /\ state.todos[4].completed

\* C16, the general statement: between events formIsValid is true exactly
\* when the input value is non-empty.
FormValidityMatchesInput ==
  pc = "idle" => (state.formIsValid <=> inputValue # "")

\* C16 as stated, in its submit case: after a successful submit has cleared
\* the input, formIsValid (and with it the form status marker) agrees with the
\* empty input, i.e. is false.
C16_SubmitLeavesFormInvalid ==
  [][(inputValue # "" /\ handleSubmit) =>
       /\ inputValue' = ""
       /\ state'.formIsValid = FALSE
       /\ formClassName' = ""
       /\ FormValidityMatchesInput']_vars

HelperShown == preInnerHTML # ""

\* C17: while hideCompleted is false the helper message is never shown (the
\* list has at least the three seed items and all of them have rows); the
\* helper is shown only when hideCompleted is true and every item is completed.
C17_HelperOnlyWhenAllHidden ==
  /\ ~state.hideCompleted =>
       /\ ~HelperShown
       /\ Len(state.todos) >= 3
       /\ Len(ul) = Len(state.todos)
  /\ HelperShown =>
       /\ state.hideCompleted
       /\ \A i \in DOMAIN state.todos : state.todos[i].completed

\* C17 witness: the filter is on, all five items have been completed, the
\* helper is shown.
C17_Witness ==
  /\ HelperShown
  /\ state.hideCompleted
  /\ Len(state.todos) = 5
  /\ \A i \in DOMAIN state.todos : state.todos[i].completed

NumCompleted(s) == Cardinality({i \in DOMAIN s.todos : s.todos[i].completed})

\* C18: while hideCompleted is true no completed item has a row; a click on a
\* row then turns a not-completed item into a completed one and removes its
\* row, so that the number of rows drops by exactly one; and no step taken
\* with hideCompleted true lowers the number of completed items.
C18_FilteredClicksOnlyComplete ==
  /\ [](state.hideCompleted =>
          \A r \in DOMAIN ul : ~state.todos[ul[r].item].completed)
  /\ [][state.hideCompleted =>
          /\ \A r \in DOMAIN ul :
               handleClick(r) =>
                 LET k == NthShown(state, r)
                 IN  /\ ~state.todos[k].completed
                     /\ state'.todos[k].completed
                     /\ \A q \in DOMAIN ul' : ul'[q].item # k
                     /\ Len(ul') = Len(ul) - 1
          /\ NumCompleted(state') >= NumCompleted(state)]_vars

\* C18 witness: with the filter on, clicks have completed the seed items one
\* after the other and an appended item is the only row left.
C18_Witness ==
  /\ state.hideCompleted
  /\ Len(state.todos) = 4
  /\ NumCompleted(state) = 3
  /\ Len(ul) = 1
  /\ ul[1].item = 4

\* C19: with hideCompleted false, a click on an item's row followed at once
\* by a second click on the row of the same item restores the state and the
\* view to what they were before the first click.
C19_DoubleClickRestores ==
  [][\A r \in DOMAIN ul :
       (~state.hideCompleted /\ handleClick(r)) =>
         /\ r \in DOMAIN ul'
         /\ ul'[r].item = ul[r].item
         /\ LET second == toggleCompleted(state', ul'[r].item)
            IN  /\ second = state
                /\ renderDOMList(resetDOMList(ul'), second) = ul
                /\ renderDOMFormStatus(second) = formClassName
                /\ renderDOMHelperMessage(second) = preInnerHTML]_vars

\* C19 witness: without the filter, the two items with the same text differ
\* in their flag after clicks, and the first seed item was un-completed.
C19_Witness ==
  /\ ~state.hideCompleted
  /\ Len(state.todos) = 4
  /\ state.todos[4].text = state.todos[3].text
  /\ state.todos[4].completed
  /\ ~state.todos[3].completed
  /\ ~state.todos[1].completed
  /\ Len(ul) = 4

====
